---- MODULE Spec2Model ----
(***************************************************************************)
(* Model of the Direct3D 11 exclusive-fullscreen example (src/main.cpp):   *)
(* main() constructs a MainWindow, runs init() (createWindow, initD3D,     *)
(* initPipeline, initGraphics) and then mainloop(), which polls the thread *)
(* message queue and renders a frame when no message is pending.           *)
(*                                                                         *)
(* Every graphics-API call may succeed or fail.  A pointer member is       *)
(* "uninit" until the code assigns it (the constructor initialises only    *)
(* is_fullscreen_), "null", or "valid".  A method call through a pointer   *)
(* that is not "valid" is an access violation (pc = "crashed"); passing a  *)
(* resource that is not valid where the API requires one either crashes    *)
(* inside the runtime or is ignored by it.                                 *)
(***************************************************************************)
EXTENDS Integers, Sequences, FiniteSets, TLC

\* Bounds of the model
MaxPosted == 2          \* messages the environment posts in one run
MaxFrames == 2          \* renderFrame calls that are counted (saturating)

\* Program constants
VertexCount == 3        \* Draw(3, 0)

VARIABLES
    pc,                 \* position of main(): createWindow .. mainloop .. returned
    exitCode,           \* process exit status, -1 while running
    is_fullscreen_, hWnd_, pRenderTargetView_, pDevice_, pDeviceContext_,
    pSwapChain_, pVertexShader_, pPixelShader_, pInputLayout_,
    pVertexBuffer_, pConstBuffer_,
    windowExists,       \* the OS window is alive (created, not destroyed)
    queue,              \* posted messages of the thread
    posted,             \* number of messages posted so far
    quitFlag,           \* PostQuitMessage was called, WM_QUIT not yet retrieved
    msg,                \* msg.message of mainloop's MSG
    wmDestroyDelivered, \* WindowProc has handled WM_DESTROY
    calls,              \* setup steps called so far, in order
    d3dResult, pipelineResult, graphicsResult, initReturn,
    f11Count,           \* F11 key-downs delivered to WindowProc
    fsCalls,            \* arguments of the SetFullscreenState calls issued
    releasedViews,      \* ids of render target views already released
    nextViewId,         \* id of the next view CreateRenderTargetView returns
    boundRTV,           \* id of the view bound by OMSetRenderTargets, 0 if none
    viewport,           \* <<TopLeftX, TopLeftY, Width, Height>>
    backBufferRefs,     \* references held on the temporary backBuffer
    fsResult,           \* HRESULT of the last SetFullscreenState call
    resizeResult,       \* result of the last resizeSwapChain call
    rtvAtResizeBuffers, \* pRenderTargetView_ when ResizeBuffers was called
    resizeArgs,         \* <<width, height>> of the last resizeSwapChain call
    constBufferCreations, \* successful creations of the constant buffer
    renderCalls,        \* calls of renderFrame, saturating at MaxFrames
    frameOps,           \* API calls the last renderFrame call performed
    frameUses,          \* the pointers the last renderFrame call started with
    iter                \* what the last iteration of mainloop did

members == <<is_fullscreen_, hWnd_, pRenderTargetView_, pDevice_,
             pDeviceContext_, pSwapChain_, pVertexShader_, pPixelShader_,
             pInputLayout_, pVertexBuffer_, pConstBuffer_>>
osVars == <<windowExists, queue, posted, quitFlag, wmDestroyDelivered>>
initVars == <<calls, d3dResult, pipelineResult, graphicsResult, initReturn>>
f11Vars == <<f11Count, fsCalls, fsResult, releasedViews, nextViewId, backBufferRefs,
             resizeResult, rtvAtResizeBuffers, resizeArgs>>
frameVars == <<renderCalls, frameOps, frameUses>>
vars == <<pc, exitCode, members, osVars, msg, initVars, f11Vars, boundRTV,
          viewport, constBufferCreations, frameVars, iter>>

----------------------------------------------------------------------------
\* Values

NullView == [st |-> "null", id |-> 0]
UninitView == [st |-> "uninit", id |-> 0]
View(n) == [st |-> "valid", id |-> n]

HResults == {"S_OK", "E_FAIL"}
FAILED(hr) == hr # "S_OK"

\* Result of a creation call: the out-parameter is set on success and
\* nulled on failure.
Created(ok) == IF ok THEN "valid" ELSE "null"

F11Down == [message |-> "WM_KEYDOWN", wParam |-> "VK_F11"]
KeyDown == [message |-> "WM_KEYDOWN", wParam |-> "VK_OTHER"]
SizeMsg == [message |-> "WM_SIZE", wParam |-> "0"]
CloseMsg == [message |-> "WM_CLOSE", wParam |-> "0"]
QuitMsg == [message |-> "WM_QUIT", wParam |-> "0"]
Messages == {F11Down, KeyDown, SizeMsg, CloseMsg}

\* Client rectangles GetClientRect can report
ClientSizes == {<<1920, 1080>>, <<1280, 720>>}

NoIter == [tick |-> 0, found |-> FALSE, dispatched |-> FALSE, rendered |-> FALSE]
NoUses == [ctx |-> "none", cb |-> "none", rtv |-> UninitView, rtvLive |-> FALSE,
           vs |-> "none", ps |-> "none", sc |-> "none"]

SetupOrder == <<"createWindow", "initD3D", "initPipeline", "initGraphics">>

----------------------------------------------------------------------------
\* MainWindow::MainWindow and the start of main()

Init ==
    /\ pc = "createWindow"
    /\ exitCode = -1
    /\ is_fullscreen_ = FALSE
    /\ hWnd_ = "uninit"
    /\ pRenderTargetView_ = UninitView
    /\ pDevice_ = "uninit"
    /\ pDeviceContext_ = "uninit"
    /\ pSwapChain_ = "uninit"
    /\ pVertexShader_ = "uninit"
    /\ pPixelShader_ = "uninit"
    /\ pInputLayout_ = "uninit"
    /\ pVertexBuffer_ = "uninit"
    /\ pConstBuffer_ = "uninit"
    /\ windowExists = FALSE
    /\ queue = <<>>
    /\ posted = 0
    /\ quitFlag = FALSE
    /\ msg = "WM_NULL"
    /\ wmDestroyDelivered = FALSE
    /\ calls = <<>>
    /\ d3dResult = "none"
    /\ pipelineResult = "none"
    /\ graphicsResult = "none"
    /\ initReturn = "none"
    /\ f11Count = 0
    /\ fsCalls = <<>>
    /\ releasedViews = {}
    /\ nextViewId = 1
    /\ boundRTV = 0
    /\ viewport = <<0, 0, 0, 0>>
    /\ backBufferRefs = 0
    /\ fsResult = "none"
    /\ resizeResult = "none"
    /\ rtvAtResizeBuffers = "none"
    /\ resizeArgs = <<0, 0>>
    /\ constBufferCreations = 0
    /\ renderCalls = 0
    /\ frameOps = <<>>
    /\ frameUses = NoUses
    /\ iter = NoIter

----------------------------------------------------------------------------
\* MainWindow::init

\* init() goes on to the next step unless the step's HRESULT is a failure
\* (if (FAILED(...)) break;)
\* (variant that never breaks out of the do-while)
InitContinues_Mutant(hr) == TRUE
InitContinues(hr) == ~FAILED(hr)

\* where init() goes after a step returned hr: the next step, or out of
\* init() and into mainloop(), main() ignoring what init() returned
AfterStep(hr, next) == IF InitContinues(hr) THEN next ELSE "mainloop"
InitReturnAfter(hr, last) ==
    IF FAILED(hr) THEN "false" ELSE IF last THEN "true" ELSE "none"

createWindow ==
    /\ pc = "createWindow"
    /\ \E ok \in BOOLEAN :
          /\ hWnd_' = Created(ok)
          /\ windowExists' = ok
    /\ calls' = Append(calls, "createWindow")
    /\ pc' = "initD3D"
    /\ UNCHANGED <<exitCode, is_fullscreen_, pRenderTargetView_, pDevice_,
                   pDeviceContext_, pSwapChain_, pVertexShader_, pPixelShader_,
                   pInputLayout_, pVertexBuffer_, pConstBuffer_, queue, posted,
                   quitFlag, wmDestroyDelivered, msg, d3dResult, pipelineResult,
                   graphicsResult, initReturn, f11Vars, boundRTV, viewport,
                   constBufferCreations, frameVars, iter>>

\* the checked calls of initD3D, in order
D3DCalls == <<"D3D11CreateDevice", "QueryInterface", "GetAdapter", "GetParent",
              "CreateSwapChainForHwnd">>
D3DFailures == {D3DCalls[i] : i \in 1..Len(D3DCalls)}

initD3D ==
    /\ pc = "initD3D"
    /\ calls' = Append(calls, "initD3D")
    /\ \E failAt \in D3DFailures \cup {"none"}, getBuffer \in BOOLEAN,
          createView \in BOOLEAN :
          \* a swap chain cannot be created for a null window handle
          /\ (failAt = "none") => (hWnd_ = "valid")
          /\ pDevice_' = Created(failAt # "D3D11CreateDevice")
          /\ pDeviceContext_' = Created(failAt # "D3D11CreateDevice")
          /\ pSwapChain_' = IF failAt = "none" THEN "valid"
                            ELSE IF failAt = "CreateSwapChainForHwnd" THEN "null"
                            ELSE pSwapChain_
          /\ IF failAt # "none"
             THEN /\ d3dResult' = "E_FAIL"
                  /\ pc' = AfterStep("E_FAIL", "initPipeline")
                  /\ initReturn' = InitReturnAfter("E_FAIL", FALSE)
                  /\ UNCHANGED <<pRenderTargetView_, nextViewId, boundRTV, viewport>>
             ELSE \* GetBuffer and CreateRenderTargetView are not checked
                  /\ pRenderTargetView_' =
                        IF getBuffer /\ createView THEN View(nextViewId) ELSE NullView
                  /\ nextViewId' = IF getBuffer /\ createView
                                   THEN nextViewId + 1 ELSE nextViewId
                  /\ IF ~getBuffer
                     THEN \* backBuffer->Release() on a null backBuffer
                          /\ pc' = "crashed"
                          /\ UNCHANGED <<d3dResult, initReturn, boundRTV, viewport>>
                     ELSE /\ boundRTV' = IF createView THEN nextViewId ELSE 0
                          /\ viewport' = <<0, 0, 1920, 1080>>
                          /\ d3dResult' = "S_OK"
                          /\ pc' = AfterStep("S_OK", "initPipeline")
                          /\ initReturn' = InitReturnAfter("S_OK", FALSE)
    /\ UNCHANGED <<exitCode, is_fullscreen_, hWnd_, pVertexShader_, pPixelShader_,
                   pInputLayout_, pVertexBuffer_, pConstBuffer_, osVars, msg,
                   pipelineResult, graphicsResult, f11Count, fsCalls, fsResult,
                   releasedViews, backBufferRefs, resizeResult,
                   rtvAtResizeBuffers, resizeArgs, constBufferCreations,
                   frameVars, iter>>

\* a step that dereferences device() / deviceCtx()
DeviceUsable == pDevice_ = "valid" /\ pDeviceContext_ = "valid"

initPipeline ==
    /\ pc = "initPipeline"
    /\ calls' = Append(calls, "initPipeline")
    /\ \E compiled \in BOOLEAN, vs \in BOOLEAN, ps \in BOOLEAN,
          layout \in BOOLEAN, cb \in BOOLEAN :
          IF ~compiled
          THEN \* D3DCompile of either shader failed: return hr
               /\ pipelineResult' = "E_FAIL"
               /\ pc' = AfterStep("E_FAIL", "initGraphics")
               /\ initReturn' = InitReturnAfter("E_FAIL", FALSE)
               /\ UNCHANGED <<pVertexShader_, pPixelShader_, pInputLayout_,
                              pConstBuffer_, constBufferCreations>>
          ELSE IF ~DeviceUsable
          THEN /\ pc' = "crashed"
               /\ UNCHANGED <<pipelineResult, initReturn, pVertexShader_,
                              pPixelShader_, pInputLayout_, pConstBuffer_,
                              constBufferCreations>>
          ELSE \* none of the creation calls is checked; hr is D3DCompile's
               /\ pVertexShader_' = Created(vs)
               /\ pPixelShader_' = Created(ps)
               /\ pInputLayout_' = Created(layout)
               /\ pConstBuffer_' = Created(cb)
               /\ constBufferCreations' =
                     IF cb THEN constBufferCreations + 1 ELSE constBufferCreations
               /\ pipelineResult' = "S_OK"
               /\ pc' = AfterStep("S_OK", "initGraphics")
               /\ initReturn' = InitReturnAfter("S_OK", FALSE)
    /\ UNCHANGED <<exitCode, is_fullscreen_, hWnd_, pRenderTargetView_, pDevice_,
                   pDeviceContext_, pSwapChain_, pVertexBuffer_, osVars, msg,
                   d3dResult, graphicsResult, f11Vars, boundRTV, viewport,
                   frameVars, iter>>

initGraphics ==
    /\ pc = "initGraphics"
    /\ calls' = Append(calls, "initGraphics")
    /\ IF ~DeviceUsable
       THEN /\ pc' = "crashed"
            /\ UNCHANGED <<pVertexBuffer_, graphicsResult, initReturn>>
       ELSE \E ok \in BOOLEAN :
            LET hr == IF ok THEN "S_OK" ELSE "E_FAIL" IN
            /\ pVertexBuffer_' = Created(ok)
            /\ graphicsResult' = hr
            /\ pc' = AfterStep(hr, "mainloop")
            /\ initReturn' = InitReturnAfter(hr, TRUE)
    /\ UNCHANGED <<exitCode, is_fullscreen_, hWnd_, pRenderTargetView_, pDevice_,
                   pDeviceContext_, pSwapChain_, pVertexShader_, pPixelShader_,
                   pInputLayout_, pConstBuffer_, osVars, msg, d3dResult,
                   pipelineResult, f11Vars, boundRTV, viewport,
                   constBufferCreations, frameVars, iter>>

----------------------------------------------------------------------------
\* The thread message queue (PeekMessage, PostQuitMessage, DestroyWindow)

\* Messages reach the queue only while the window exists
PostMsg ==
    /\ pc \in {"initD3D", "initPipeline", "initGraphics", "mainloop"}
    /\ windowExists
    /\ posted < MaxPosted
    /\ \E m \in Messages : queue' = Append(queue, m)
    /\ posted' = posted + 1
    /\ UNCHANGED <<pc, exitCode, members, windowExists, quitFlag,
                   wmDestroyDelivered, msg, initVars, f11Vars, boundRTV,
                   viewport, constBufferCreations, frameVars, iter>>

\* PeekMessage(&msg, nullptr, 0, 0, PM_REMOVE): the oldest posted message,
\* else WM_QUIT once PostQuitMessage was called, else nothing
PeekMessage(q, quit) ==
    IF q # <<>>
    THEN [found |-> TRUE, m |-> Head(q), rest |-> Tail(q), quit |-> quit]
    ELSE IF quit
    THEN [found |-> TRUE, m |-> QuitMsg, rest |-> q, quit |-> FALSE]
    ELSE [found |-> FALSE, m |-> QuitMsg, rest |-> q, quit |-> quit]

\* PostQuitMessage(0) in the WM_DESTROY case
\* (variant in which WM_DESTROY posts nothing)
PostQuitMessage_Mutant(quit) == quit
PostQuitMessage(quit) == TRUE

----------------------------------------------------------------------------
\* MainWindow::mainloop and MainWindow::WindowProc

\* while (msg.message != WM_QUIT)
LoopCond == pc = "mainloop" /\ msg # "WM_QUIT"

\* the else branch of if (PeekMessage(...))
\* (variant that renders in every iteration)
ElseBranch_Mutant(found) == TRUE
ElseBranch(found) == ~found

Peeked == PeekMessage(queue, quitFlag)

Dispatched == [tick |-> 1, found |-> Peeked.found, dispatched |-> TRUE,
               rendered |-> FALSE]

\* is_fullscreen_ = !is_fullscreen_
\* (variant that always requests fullscreen)
FlipFullscreen_Mutant(b) == TRUE
FlipFullscreen(b) == ~b

\* releaseResources(pRenderTargetView_); pRenderTargetView_ = nullptr;
ReleaseOnly(s) ==
    [s EXCEPT !.released = IF s.rtv.st = "valid" THEN @ \cup {s.rtv.id} ELSE @]
ReleaseAndClear(s) == [ReleaseOnly(s) EXCEPT !.rtv = NullView]

\* resizeSwapChain from the ResizeBuffers call on
ResizeFrom(s, width, height, resizeOk, getOk, viewOk) ==
    LET atCall == [s EXCEPT !.atResize = s.rtv.st] IN
    IF ~resizeOk THEN [atCall EXCEPT !.result = "ResizeBuffers"]
    ELSE IF ~getOk THEN [atCall EXCEPT !.result = "GetBuffer"]
    ELSE IF ~viewOk
    THEN \* returns without backBuffer->Release()
         [atCall EXCEPT !.result = "CreateRenderTargetView", !.rtv = NullView,
                        !.refs = @ + 1]
    ELSE [atCall EXCEPT !.result = "S_OK", !.rtv = View(s.nextId),
                        !.nextId = @ + 1, !.bound = s.nextId,
                        !.viewport = <<0, 0, width, height>>]

\* (variant that keeps the released pointer in pRenderTargetView_)
resizeSwapChain_Mutant(s, width, height, resizeOk, getOk, viewOk) ==
    ResizeFrom(ReleaseOnly(s), width, height, resizeOk, getOk, viewOk)
resizeSwapChain(s, width, height, resizeOk, getOk, viewOk) ==
    ResizeFrom(ReleaseAndClear(s), width, height, resizeOk, getOk, viewOk)

ResizeState == [rtv |-> pRenderTargetView_, released |-> releasedViews,
                nextId |-> nextViewId, bound |-> boundRTV,
                viewport |-> viewport, refs |-> backBufferRefs,
                result |-> resizeResult, atResize |-> rtvAtResizeBuffers]

\* case WM_KEYDOWN with wParam == VK_F11
DispatchF11 ==
    /\ LoopCond
    /\ Peeked.found /\ Peeked.m = F11Down
    /\ queue' = Peeked.rest
    /\ quitFlag' = Peeked.quit
    /\ msg' = Peeked.m.message
    /\ iter' = Dispatched
    /\ f11Count' = f11Count + 1
    \* toggleFullscreen
    /\ is_fullscreen_' = FlipFullscreen(is_fullscreen_)
    /\ fsCalls' = Append(fsCalls, is_fullscreen_')
    /\ IF pSwapChain_ # "valid"
       THEN /\ pc' = "crashed"
            /\ UNCHANGED <<exitCode, fsResult, pRenderTargetView_, releasedViews,
                           nextViewId, boundRTV, viewport, backBufferRefs,
                           resizeResult, rtvAtResizeBuffers, resizeArgs>>
       ELSE \E hr \in HResults, size \in ClientSizes, resizeOk \in BOOLEAN,
               getOk \in BOOLEAN, viewOk \in BOOLEAN :
            LET r == resizeSwapChain(ResizeState, size[1], size[2],
                                     resizeOk, getOk, viewOk) IN
            /\ fsResult' = hr
            /\ resizeArgs' = size
            /\ pRenderTargetView_' = r.rtv
            /\ releasedViews' = r.released
            /\ nextViewId' = r.nextId
            /\ boundRTV' = r.bound
            /\ viewport' = r.viewport
            /\ backBufferRefs' = r.refs
            /\ resizeResult' = r.result
            /\ rtvAtResizeBuffers' = r.atResize
            \* if (FAILED(hr)) exit(1);
            /\ IF FAILED(r.result)
               THEN pc' = "exited" /\ exitCode' = 1
               ELSE UNCHANGED <<pc, exitCode>>
    /\ UNCHANGED <<hWnd_, pDevice_, pDeviceContext_, pSwapChain_, pVertexShader_,
                   pPixelShader_, pInputLayout_, pVertexBuffer_, pConstBuffer_,
                   windowExists, posted, wmDestroyDelivered, initVars,
                   constBufferCreations, frameVars>>

\* WM_KEYDOWN of another key and WM_SIZE: break; return 0
DispatchOther ==
    /\ LoopCond
    /\ Peeked.found /\ Peeked.m \in {KeyDown, SizeMsg}
    /\ queue' = Peeked.rest
    /\ quitFlag' = Peeked.quit
    /\ msg' = Peeked.m.message
    /\ iter' = Dispatched
    /\ UNCHANGED <<pc, exitCode, members, windowExists, posted,
                   wmDestroyDelivered, initVars, f11Vars, boundRTV, viewport,
                   constBufferCreations, frameVars>>

\* WM_CLOSE takes the default case: DefWindowProc calls DestroyWindow, which
\* flushes the queue and sends WM_DESTROY to WindowProc: PostQuitMessage(0)
DispatchClose ==
    /\ LoopCond
    /\ Peeked.found /\ Peeked.m = CloseMsg
    /\ queue' = <<>>
    /\ windowExists' = FALSE
    /\ wmDestroyDelivered' = TRUE
    /\ quitFlag' = PostQuitMessage(Peeked.quit)
    /\ msg' = Peeked.m.message
    /\ iter' = Dispatched
    /\ UNCHANGED <<pc, exitCode, members, posted, initVars, f11Vars, boundRTV,
                   viewport, constBufferCreations, frameVars>>

\* PeekMessage retrieves WM_QUIT; DispatchMessage has no window to call
RetrieveQuit ==
    /\ LoopCond
    /\ Peeked.found /\ Peeked.m = QuitMsg
    /\ queue' = Peeked.rest
    /\ quitFlag' = Peeked.quit
    /\ msg' = Peeked.m.message
    /\ iter' = Dispatched
    /\ UNCHANGED <<pc, exitCode, members, windowExists, posted,
                   wmDestroyDelivered, initVars, f11Vars, boundRTV, viewport,
                   constBufferCreations, frameVars>>

----------------------------------------------------------------------------
\* MainWindow::renderFrame

Call(name, n) == [name |-> name, n |-> n]

\* an argument the API accepts
ArgOk(step) == step.arg = "valid" \/ (step.arg = "null" /\ step.nullOk)

\* the outcomes of running the calls of steps in order: the calls performed
\* and whether the process crashed
RECURSIVE RunSteps(_)
RunSteps(steps) ==
    IF steps = <<>> THEN {[ops |-> <<>>, crashed |-> FALSE]}
    ELSE LET step == Head(steps) IN
         (IF step.recv # "valid" \/ ~ArgOk(step)
          THEN {[ops |-> <<>>, crashed |-> TRUE]} ELSE {})
         \cup
         (IF step.recv = "valid"
          THEN {[ops |-> <<step.call>> \o r.ops, crashed |-> r.crashed] :
                    r \in RunSteps(Tail(steps))}
          ELSE {})

\* pRenderTargetView_ as an argument: a released view is dangling
ViewArg(rtv, released) ==
    IF rtv.st = "valid" /\ rtv.id \in released THEN "released" ELSE rtv.st

FrameSteps ==
    LET rtv == ViewArg(pRenderTargetView_, releasedViews) IN
    << [call |-> Call("UpdateSubresource", 0), recv |-> pDeviceContext_,
        arg |-> pConstBuffer_, nullOk |-> FALSE],
       [call |-> Call("OMSetRenderTargets", 0), recv |-> pDeviceContext_,
        arg |-> rtv, nullOk |-> TRUE],
       [call |-> Call("ClearRenderTargetView", 0), recv |-> pDeviceContext_,
        arg |-> rtv, nullOk |-> FALSE],
       [call |-> Call("VSSetShader", 0), recv |-> pDeviceContext_,
        arg |-> pVertexShader_, nullOk |-> TRUE],
       [call |-> Call("PSSetShader", 0), recv |-> pDeviceContext_,
        arg |-> pPixelShader_, nullOk |-> TRUE],
       [call |-> Call("Draw", VertexCount), recv |-> pDeviceContext_,
        arg |-> "valid", nullOk |-> FALSE],
       [call |-> Call("Present", 0), recv |-> pSwapChain_,
        arg |-> "valid", nullOk |-> FALSE] >>

FrameCycle == <<Call("UpdateSubresource", 0), Call("OMSetRenderTargets", 0),
                Call("ClearRenderTargetView", 0), Call("VSSetShader", 0),
                Call("PSSetShader", 0), Call("Draw", VertexCount),
                Call("Present", 0)>>

renderFrame ==
    /\ LoopCond
    /\ ElseBranch(Peeked.found)
    /\ renderCalls' = IF renderCalls < MaxFrames THEN renderCalls + 1 ELSE renderCalls
    /\ frameUses' = [ctx |-> pDeviceContext_, cb |-> pConstBuffer_,
                     rtv |-> pRenderTargetView_,
                     rtvLive |-> ViewArg(pRenderTargetView_, releasedViews) = "valid",
                     vs |-> pVertexShader_, ps |-> pPixelShader_,
                     sc |-> pSwapChain_]
    /\ iter' = [tick |-> 1, found |-> Peeked.found, dispatched |-> FALSE,
                rendered |-> TRUE]
    /\ \E r \in RunSteps(FrameSteps) :
          /\ frameOps' = r.ops
          /\ pc' = IF r.crashed THEN "crashed" ELSE pc
          /\ boundRTV' = IF Len(r.ops) >= 2 /\ pRenderTargetView_.st = "valid"
                         THEN pRenderTargetView_.id
                         ELSE IF Len(r.ops) >= 2 /\ pRenderTargetView_.st = "null"
                         THEN 0 ELSE boundRTV
    /\ UNCHANGED <<exitCode, members, osVars, msg, initVars, f11Vars, viewport,
                   constBufferCreations>>

\* the loop condition fails; main returns 0
mainReturn ==
    /\ pc = "mainloop"
    /\ msg = "WM_QUIT"
    /\ pc' = "returned"
    /\ exitCode' = 0
    /\ UNCHANGED <<members, osVars, msg, initVars, f11Vars, boundRTV, viewport,
                   constBufferCreations, frameVars, iter>>

----------------------------------------------------------------------------
Program ==
    \/ createWindow
    \/ initD3D
    \/ initPipeline
    \/ initGraphics
    \/ DispatchF11
    \/ DispatchOther
    \/ DispatchClose
    \/ RetrieveQuit
    \/ renderFrame
    \/ mainReturn

Next ==
    \/ createWindow
    \/ initD3D
    \/ initPipeline
    \/ initGraphics
    \/ PostMsg
    \/ DispatchF11
    \/ DispatchOther
    \/ DispatchClose
    \/ RetrieveQuit
    \/ renderFrame
    \/ mainReturn

Spec == Init /\ [][Next]_vars

\* main() is the only thread and always takes its next step
FairSpec == Init /\ [][Next]_vars /\ WF_vars(Program)

----------------------------------------------------------------------------
\* Properties

IsPrefix(a, b) == Len(a) <= Len(b) /\ \A i \in 1..Len(a) : a[i] = b[i]
Called(step) == \E i \in 1..Len(calls) : calls[i] = step

C2_CloseExits ==
    /\ [](wmDestroyDelivered => (quitFlag \/ msg = "WM_QUIT"))
    /\ (wmDestroyDelivered ~> (pc = "returned" /\ exitCode = 0))
    /\ [][msg = "WM_QUIT" => (iter' = iter /\ frameVars' = frameVars)]_vars

C2_Witness == wmDestroyDelivered /\ pc = "returned" /\ exitCode = 0

\* C3: in every iteration of mainloop renderFrame is called exactly when
\* PeekMessage found no message; a pending message is removed and dispatched
\* before any further frame is rendered; no iteration both dispatches and
\* renders.
C3_PollThenRender ==
    /\ [](iter.tick = 1 =>
             /\ iter.rendered <=> ~iter.found
             /\ iter.dispatched <=> iter.found)
    /\ [][renderCalls' # renderCalls =>
             queue = <<>> /\ ~quitFlag /\ queue' = queue]_vars
    /\ [][(pc = "mainloop" /\ posted' = posted /\ queue # <<>>) =>
             Len(queue') < Len(queue) /\ frameVars' = frameVars]_vars

C3_Witness == iter.rendered /\ msg = "WM_KEYDOWN" /\ queue = <<>> /\ renderCalls = 1

\* C5: createWindow, initD3D, initPipeline and initGraphics each run at most
\* once, in that order, and all before the first renderFrame; a graphics step
\* runs only if every earlier graphics step returned success; init() returns
\* true exactly when all three graphics steps returned success.
C5_LinearSetup ==
    /\ [](IsPrefix(calls, SetupOrder))
    /\ [](Called("initPipeline") => d3dResult = "S_OK")
    /\ [](Called("initGraphics") => d3dResult = "S_OK" /\ pipelineResult = "S_OK")
    /\ [](pc \in {"mainloop", "returned", "exited"} => initReturn # "none")
    /\ [](initReturn # "none" =>
             (initReturn = "true" <=>
                 /\ d3dResult = "S_OK"
                 /\ pipelineResult = "S_OK"
                 /\ graphicsResult = "S_OK"))
    /\ [](renderCalls > 0 => initReturn # "none")
    /\ [][calls' # calls => renderCalls = 0 /\ renderCalls' = 0]_vars

C5_Witness == initReturn = "true" /\ calls = SetupOrder /\ renderCalls > 0

\* C7: resizeSwapChain(width, height) releases the current view (if non-null)
\* and nulls pRenderTargetView_ before ResizeBuffers is called; when it
\* returns S_OK, pRenderTargetView_ is a newly created view, bound as the
\* render target, the viewport is (0, 0, width, height) and the temporary
\* back-buffer reference is released; when ResizeBuffers or GetBuffer fails,
\* pRenderTargetView_ is null.
C7_ResizeSwapChain ==
    [][(f11Count' # f11Count /\ pc' # "crashed") =>
          /\ rtvAtResizeBuffers' = "null"
          /\ pRenderTargetView_.st = "valid" => pRenderTargetView_.id \in releasedViews'
          /\ resizeResult' = "S_OK" =>
                /\ pRenderTargetView_' = View(nextViewId)
                /\ nextViewId' = nextViewId + 1
                /\ pRenderTargetView_'.id \notin releasedViews'
                /\ boundRTV' = pRenderTargetView_'.id
                /\ viewport' = <<0, 0, resizeArgs'[1], resizeArgs'[2]>>
                /\ backBufferRefs' = 0
          /\ resizeResult' \in {"ResizeBuffers", "GetBuffer"} =>
                pRenderTargetView_' = NullView]_vars

C7_Witness ==
    /\ resizeResult = "S_OK"
    /\ pRenderTargetView_.st = "valid"
    /\ releasedViews # {}
    /\ viewport = <<0, 0, 1280, 720>>

\* C4: a failure of initD3D, initPipeline, initGraphics, SetFullscreenState
\* or of a call inside renderFrame never terminates the process; the process
\* is terminated early only by a failed resizeSwapChain, with exit status 1.
C4_OnlyResizeHalts ==
    /\ pc \in {"crashed", "exited"} =>
          pc = "exited" /\ exitCode = 1 /\ resizeResult \notin {"none", "S_OK"}
    /\ resizeResult \notin {"none", "S_OK"} => pc = "exited" /\ exitCode = 1

\* C6: every call of renderFrame performs one constant-buffer update on the
\* constant buffer created once in initPipeline, one ClearRenderTargetView,
\* one Draw of 3 vertices and one Present, the clear before the draw and
\* Present last; the constant buffer is created at most once.
C6_FrameCycle ==
    /\ constBufferCreations <= 1
    /\ renderCalls > 0 =>
          /\ frameOps = FrameCycle
          /\ frameUses.cb = "valid"
          /\ constBufferCreations = 1

\* C8: whenever renderFrame, toggleFullscreen or resizeSwapChain executes,
\* init() has succeeded and the device, context and swap chain (for
\* renderFrame also the shaders and the constant buffer) have been created.
C8_NoUseAfterFailedInit ==
    /\ renderCalls > 0 =>
          /\ initReturn = "true"
          /\ frameUses.ctx = "valid" /\ frameUses.sc = "valid"
          /\ frameUses.cb = "valid" /\ frameUses.vs = "valid"
          /\ frameUses.ps = "valid"
    /\ f11Count > 0 =>
          /\ initReturn = "true"
          /\ pDevice_ = "valid" /\ pDeviceContext_ = "valid"
          /\ pSwapChain_ = "valid"

\* C9: after a successful init() every call of renderFrame uses a
\* pRenderTargetView_ that is non-null and not released.
C9_RenderTargetLive ==
    (initReturn = "true" /\ renderCalls > 0) => frameUses.rtvLive

====
